---- MODULE Spec2Model ----
(***************************************************************************)
(* MSM cpufreq driver (arch/arm/mach-msm/cpufreq.c).                       *)
(*                                                                         *)
(* The model follows the driver function by function:                      *)
(*   msm_cpufreq_target   - the Call .. Unlock actions of a caller task    *)
(*   set_cpu_freq         - ExecBegin, ExecClockSet, ExecEnd, run either   *)
(*                          by the caller (inline) or by the kworker       *)
(*   set_cpu_work         - WorkerPick, WorkerComplete                     *)
(*   msm_cpufreq_cpu_callback, msm_cpufreq_suspend, msm_cpufreq_resume     *)
(*                        - the actions of the hotplug / PM thread         *)
(* Kernel primitives (mutex, workqueue, completion, scheduler) are         *)
(* modelled by their documented effect at the line that calls them.        *)
(***************************************************************************)
EXTENDS Integers, Sequences, FiniteSets, TLC

\* ---------------------------------------------------------------- bounds
MaxCalls == 2
MaxEvents == 2
MaxLen == 3
MaxFreq == 4

\* ------------------------------------------------------ program constants
EIO == 5
ENOMEM == 12
EFAULT == 14
ENODEV == 19
EINVAL == 22
SCHED_NORMAL == 0
SCHED_FIFO == 1
SCHED_RR == 2
MAX_RT_PRIO == 100
CPUFREQ_RELATION_L == 0
CPUFREQ_RELATION_H == 1

\* ------------------------------------------------------------ the machine
CpuOrder == <<"cpu0", "cpu1">>
Cores == {CpuOrder[i] : i \in 1..Len(CpuOrder)}

CallerNames == {"a", "b"}
Callers == {<<"caller", n>> : n \in CallerNames}
Worker(k) == <<"kworker", k>>
Workers == {Worker(k) : k \in Cores}
Tasks == Callers \cup Workers
Hotplug == <<"hotplug", "pm">>
NoTask == <<"none", "none">>

\* cpus_allowed of the calling tasks: "a" is pinned to cpu0, "b" may run anywhere
CpusAllowed(c) == IF c = <<"caller", "a">> THEN {"cpu0"} ELSE Cores

\* the frequency table of the spec's scenario (300, 600, 900 MHz in units of 100)
FreqTable == <<3, 6, 9>>
Targets == {7, 10}
Relations == {CPUFREQ_RELATION_L, CPUFREQ_RELATION_H}
ClkResults == {0, -EIO}
SchedInputs == {[policy |-> SCHED_NORMAL, rt_priority |-> 0],
                [policy |-> SCHED_FIFO, rt_priority |-> 5],
                [policy |-> SCHED_FIFO, rt_priority |-> MAX_RT_PRIO - 1],
                [policy |-> SCHED_RR, rt_priority |-> 7]}
\* "a" is a SCHED_FIFO task, "b" and the kworkers are SCHED_NORMAL
TaskSched(t) == IF t = <<"caller", "a">>
                THEN [policy |-> SCHED_FIFO, rt_priority |-> 5]
                ELSE [policy |-> SCHED_NORMAL, rt_priority |-> 0]
NoSaved == [policy |-> -EINVAL, rt_priority |-> -EINVAL]

VARIABLES
    pc,              \* caller -> position in msm_cpufreq_target
    cpu,             \* caller -> policy->cpu of the current call
    target_freq,     \* caller -> argument
    relation,        \* caller -> argument
    ret,             \* caller -> local ret / returned value
    sched,           \* task -> [policy, rt_priority] of the task (current->...)
    exPc,            \* task -> position in set_cpu_freq
    exCpu,           \* task -> policy->cpu of the running set_cpu_freq
    freqs,           \* task -> [old, new] (struct cpufreq_freqs)
    exRet,           \* task -> local ret of set_cpu_freq
    saved,           \* task -> [policy, rt_priority] saved_sched_policy / _rt_prio
    suspend_mutex,   \* core -> owner of cpufreq_suspend.suspend_mutex
    device_suspended,\* core -> cpufreq_suspend.device_suspended (0 / 1)
    cpu_work,        \* core -> [policy, frequency, status] of cpufreq_work
    workPending,     \* core -> work item queued
    workRunning,     \* core -> work item executing
    complete,        \* core -> completion.done
    wpc,             \* core -> position of the kworker in set_cpu_work
    policyCur,       \* core -> policy->cur
    active,          \* core -> cpu_active(cpu)
    lpc,             \* position of the hotplug / PM thread
    lcpu,            \* its cpu argument / loop cursor
    nCalls,          \* set_target calls started
    nEvents,         \* lifecycle events started
    evlog,           \* caller -> notifications and clock-set calls made for its call
    workOwner,       \* core -> caller whose queue_work_on queued the work item
    gateFlag,        \* caller -> value of device_suspended read at the gate
    downSeen,        \* caller -> a CPU_DOWN_PREPARE of its core returned while it
                     \*           waited at mutex_lock, and no handler has cleared
                     \*           the flag since, up to its acquiring the mutex
    entrySched,      \* task -> sched at entry of set_cpu_freq
    rTable, rTarget, rRel, rPc, rRet, rFreq,  \* resolve-only specification
    initPc,          \* position in msm_cpufreq_init
    initCpu,         \* policy->cpu of the msm_cpufreq_init call
    acpuRate,        \* what acpuclk_get_rate(policy->cpu) reports
    cur_freq,        \* local of msm_cpufreq_init
    initIndex,       \* local index of msm_cpufreq_init
    initRet,         \* value returned by msm_cpufreq_init
    initClk          \* clock-set calls made by msm_cpufreq_init

vars == <<pc, cpu, target_freq, relation, ret, sched, exPc, exCpu, freqs, exRet,
          saved, suspend_mutex, device_suspended, cpu_work, workPending,
          workRunning, complete, wpc, policyCur, active, lpc, lcpu, nCalls,
          nEvents, evlog, workOwner, gateFlag, downSeen, entrySched,
          rTable, rTarget, rRel, rPc, rRet, rFreq,
          initPc, initCpu, acpuRate, cur_freq, initIndex, initRet, initClk>>

callVars == <<pc, cpu, target_freq, relation, ret>>
execVars == <<exPc, exCpu, freqs, exRet, saved>>
workVars == <<cpu_work, workPending, workRunning, complete, wpc, workOwner>>
lifeVars == <<lpc, lcpu, nEvents>>
resVars == <<rTable, rTarget, rRel, rPc, rRet, rFreq>>
initVars == <<initPc, initCpu, acpuRate, cur_freq, initIndex, initRet, initClk>>

\* ---------------------------------------------------- kernel primitives
\* mutex_lock() proceeds only when nobody owns the mutex
MutexFree_NoExclusion(k) == TRUE
MutexFree_Global(k) == \A j \in Cores : suspend_mutex[j] = NoTask
MutexFree(k) == suspend_mutex[k] = NoTask

\* line 120: the gate reads device_suspended as a truth value
Suspended_Never(k) == FALSE
Suspended(k) == device_suspended[k] # 0

\* wait_for_completion() proceeds only when completion.done > 0
CompletionDone_NoWait(k) == TRUE
CompletionDone(k) == complete[k] > 0

\* cpumask_equal(mask, &current->cpus_allowed), mask = { policy->cpu }
CpumaskEqual(mask, allowed) == mask = allowed

\* sched_setscheduler_nocheck(current, policy, &param)
SchedSet(policy, prio) == [policy |-> policy, rt_priority |-> prio]

\* cpufreq_frequency_table_target(): scan of the table for the entry nearest
\* to target in the direction of relation; RELATION_H is "highest at or below"
\* (round down), RELATION_L is "lowest at or above" (round up).
\* best = 0 means no entry found so far.
RECURSIVE TableScan(_, _, _, _, _)
TableScan(table, target, rel, i, best) ==
    IF i > Len(table) THEN best
    ELSE LET f == table[i]
             fits == IF rel = CPUFREQ_RELATION_H THEN f <= target ELSE f >= target
             closer == \/ best = 0
                       \/ IF rel = CPUFREQ_RELATION_H THEN f > table[best]
                                                      ELSE f < table[best]
         IN TableScan(table, target, rel, i + 1, IF fits /\ closer THEN i ELSE best)

TableTarget(table, target, rel) ==
    LET best == TableScan(table, target, rel, 1, 0)
    IN IF best = 0 THEN [err |-> -EINVAL, index |-> 0]
                   ELSE [err |-> 0, index |-> best]

\* cpufreq_notify_transition(CPUFREQ_POSTCHANGE): the cpufreq core records the
\* new frequency as policy->cur
NotifyPostCur(cur, new) == new

\* ------------------------------------------------ msm_cpufreq_target parts
\* lines 127-141: resolve the target, select table[index].frequency
SelectedFrequency_FirstEntry(table, index) == table[1]
SelectedFrequency(table, index) == table[index]

OtherRelation(rel) ==
    IF rel = CPUFREQ_RELATION_L THEN CPUFREQ_RELATION_H ELSE CPUFREQ_RELATION_L
TargetLookup_Fallback(table, target, rel) ==
    LET r == TableTarget(table, target, rel)
        o == TableTarget(table, target, OtherRelation(rel))
        u == IF r.err = 0 THEN r ELSE o
    IN IF u.err # 0 THEN [ok |-> FALSE, ret |-> -EINVAL, frequency |-> 0]
                    ELSE [ok |-> TRUE, ret |-> 0, frequency |-> table[u.index]]
TargetLookup(table, target, rel) ==
    LET r == TableTarget(table, target, rel)
    IN IF r.err # 0 THEN [ok |-> FALSE, ret |-> -EINVAL, frequency |-> 0]
                    ELSE [ok |-> TRUE, ret |-> 0,
                          frequency |-> SelectedFrequency(table, r.index)]

\* line 142: placeholder status written before dispatch
PlaceholderStatus == -ENODEV

\* lines 124, 132: "goto done" leads to the unlock at the label done (158-161)
GotoDone_ReturnDirectly == "return"
GotoDone == "done"

\* ------------------------------------------------------ set_cpu_freq parts
\* line 70
NeedsElevation_AnyChange(new, old, curpolicy) == new # old /\ curpolicy # SCHED_FIFO
NeedsElevation(new, old, curpolicy) == new > old /\ curpolicy # SCHED_FIFO

\* line 83
NeedsRestore_OnSuccess(new, old, savedpolicy, r) == new > old /\ savedpolicy >= 0 /\ r = 0
NeedsRestore(new, old, savedpolicy, r) == new > old /\ savedpolicy >= 0

\* line 84: the priority handed back on restore
RestorePrio(savedprio) == savedprio

\* line 79
PostNotified_Always(r) == TRUE
PostNotified_OnFailure(r) == r # 0
PostNotified(r) == r = 0

\* line 96: complete() increments completion.done
SignalDone_Lost(done) == done
SignalDone(done) == done + 1

\* line 153: wait_for_completion() returns having decremented completion.done
ConsumeDone_Keep(done) == done
ConsumeDone(done) == IF done > 0 THEN done - 1 ELSE 0

\* line 95: what the work item leaves in cpu_work->status
WorkStatus_Keep(k, r) == cpu_work[k].status
WorkStatus(k, r) == r

\* the core whose cpufreq_work slot a task's set_cpu_freq call takes its
\* arguments from, and the caller on whose behalf it runs
SlotOf(t) == IF t \in Callers THEN cpu[t] ELSE t[2]
OwnerOf(t) == IF t \in Callers THEN t ELSE workOwner[t[2]]
Logged(t, ev) ==
    IF OwnerOf(t) \in Callers
    THEN [evlog EXCEPT ![OwnerOf(t)] = Append(@, ev)]
    ELSE evlog

\* ------------------------------------------------------------------ Init
\* msm_cpufreq_register() and msm_cpufreq_init() have run for every possible
\* cpu: mutexes free, device_suspended = 0, work idle, completion unset,
\* policy->cur on a table entry.
DriverInit ==
    /\ pc = [c \in Callers |-> "idle"]
    /\ cpu = [c \in Callers |-> CpuOrder[1]]
    /\ target_freq = [c \in Callers |-> 0]
    /\ relation = [c \in Callers |-> CPUFREQ_RELATION_L]
    /\ ret = [c \in Callers |-> 0]
    /\ sched = [t \in Tasks |-> TaskSched(t)]
    /\ exPc = [t \in Tasks |-> "none"]
    /\ exCpu = [t \in Tasks |-> CpuOrder[1]]
    /\ freqs = [t \in Tasks |-> [old |-> 0, new |-> 0]]
    /\ exRet = [t \in Tasks |-> 0]
    /\ saved = [t \in Tasks |-> NoSaved]
    /\ suspend_mutex = [k \in Cores |-> NoTask]
    /\ device_suspended = [k \in Cores |-> 0]
    /\ cpu_work = [k \in Cores |-> [policy |-> k, frequency |-> 0, status |-> 0]]
    /\ workPending = [k \in Cores |-> FALSE]
    /\ workRunning = [k \in Cores |-> FALSE]
    /\ complete = [k \in Cores |-> 0]
    /\ wpc = [k \in Cores |-> "idle"]
    /\ active = [k \in Cores |-> TRUE]
    /\ lpc = "idle"
    /\ lcpu = 1
    /\ nCalls = 0
    /\ nEvents = 0
    /\ evlog = [c \in Callers |-> <<>>]
    /\ workOwner = [k \in Cores |-> NoTask]
    /\ gateFlag = [c \in Callers |-> -1]
    /\ downSeen = [c \in Callers |-> FALSE]
    /\ entrySched = [t \in Tasks |-> sched[t]]

\* msm_cpufreq_init is not running
InitOff ==
    /\ initPc = "off"
    /\ initCpu = CpuOrder[1]
    /\ acpuRate = 0
    /\ cur_freq = 0
    /\ initIndex = 0
    /\ initRet = 0
    /\ initClk = <<>>

MainInit ==
    /\ DriverInit
    /\ policyCur = [k \in Cores |-> FreqTable[2]]
    /\ InitOff

ResolveOff ==
    /\ rTable = <<>>
    /\ rTarget = 0
    /\ rRel = CPUFREQ_RELATION_L
    /\ rPc = "off"
    /\ rRet = 0
    /\ rFreq = 0

Init == MainInit /\ ResolveOff

\* ------------------------------------------------------ msm_cpufreq_target
\* line 110: cpu_active(policy->cpu)
CpuActive_Assumed(k) == TRUE
CpuActive(k) == active[k]

\* lines 103-116: entry, cpu_active() check, alloc_cpumask_var()
Call(c, k, tf, rel, allocOk) ==
    /\ pc[c] = "idle"
    /\ nCalls < MaxCalls
    /\ nCalls' = nCalls + 1
    /\ cpu' = [cpu EXCEPT ![c] = k]
    /\ IF ~CpuActive(k)
       THEN /\ ret' = [ret EXCEPT ![c] = -ENODEV]
            /\ pc' = [pc EXCEPT ![c] = "return"]
            /\ UNCHANGED <<target_freq, relation>>
       ELSE IF ~allocOk
       THEN /\ ret' = [ret EXCEPT ![c] = -ENOMEM]
            /\ pc' = [pc EXCEPT ![c] = "return"]
            /\ UNCHANGED <<target_freq, relation>>
       ELSE /\ ret' = [ret EXCEPT ![c] = -EFAULT]
            /\ pc' = [pc EXCEPT ![c] = "lock"]
            /\ target_freq' = [target_freq EXCEPT ![c] = tf]
            /\ relation' = [relation EXCEPT ![c] = rel]
    /\ UNCHANGED <<evlog, gateFlag, downSeen>>
    /\ UNCHANGED <<sched, execVars, suspend_mutex, device_suspended, workVars,
                   policyCur, active, lifeVars, entrySched, resVars, initVars>>

\* lines 112, 116: return -ENODEV / return -ENOMEM, no mutex taken
EarlyReturn(c) ==
    /\ pc[c] = "return"
    /\ pc' = [pc EXCEPT ![c] = "idle"]
    /\ cpu' = [cpu EXCEPT ![c] = CpuOrder[1]]
    /\ ret' = [ret EXCEPT ![c] = 0]
    /\ UNCHANGED <<target_freq, relation, sched, execVars, suspend_mutex,
                   device_suspended, workVars, policyCur, active, lifeVars,
                   nCalls, evlog, gateFlag, downSeen, entrySched, resVars, initVars>>

\* line 118: mutex_lock(&per_cpu(cpufreq_suspend, policy->cpu).suspend_mutex)
Lock(c) ==
    /\ pc[c] = "lock"
    /\ MutexFree(cpu[c])
    /\ suspend_mutex' = [suspend_mutex EXCEPT ![cpu[c]] = c]
    /\ pc' = [pc EXCEPT ![c] = "check"]
    /\ UNCHANGED <<cpu, target_freq, relation, ret, sched, execVars,
                   device_suspended, workVars, policyCur, active, lifeVars,
                   nCalls, evlog, gateFlag, downSeen, entrySched, resVars, initVars>>

\* lines 120-149: the device_suspended check, the table lookup, filling the
\* cpufreq_work slot, the choice of the inline or the remote path
Gate(c) ==
    /\ pc[c] = "check"
    /\ gateFlag' = [gateFlag EXCEPT ![c] = device_suspended[cpu[c]]]
    /\ downSeen' = downSeen
    /\ LET k == cpu[c]
           r == TargetLookup(FreqTable, target_freq[c], relation[c])
       IN IF Suspended(k)
          THEN /\ ret' = [ret EXCEPT ![c] = -EFAULT]
               /\ pc' = [pc EXCEPT ![c] = GotoDone]
               /\ UNCHANGED <<cpu_work, exPc>>
          ELSE IF ~r.ok
          THEN /\ ret' = [ret EXCEPT ![c] = r.ret]
               /\ pc' = [pc EXCEPT ![c] = GotoDone]
               /\ UNCHANGED <<cpu_work, exPc>>
          ELSE /\ cpu_work' = [cpu_work EXCEPT ![k] =
                      [policy |-> k, frequency |-> r.frequency,
                       status |-> PlaceholderStatus]]
               /\ ret' = ret
               /\ IF CpumaskEqual({k}, CpusAllowed(c))
                  THEN /\ pc' = [pc EXCEPT ![c] = "inline"]
                       /\ exPc' = [exPc EXCEPT ![c] = "begin"]
                  ELSE /\ pc' = [pc EXCEPT ![c] = "cancel"]
                       /\ exPc' = exPc
    /\ UNCHANGED <<cpu, target_freq, relation, sched, exCpu, freqs, exRet, saved,
                   suspend_mutex, device_suspended, workPending, workRunning,
                   complete, wpc, workOwner, policyCur, active, lifeVars, nCalls,
                   evlog, entrySched, resVars, initVars>>

\* the locals of a returned set_cpu_freq call are dead
ExecLocalsDropped(t) ==
    /\ exCpu' = [exCpu EXCEPT ![t] = CpuOrder[1]]
    /\ freqs' = [freqs EXCEPT ![t] = [old |-> 0, new |-> 0]]
    /\ exRet' = [exRet EXCEPT ![t] = 0]
    /\ saved' = [saved EXCEPT ![t] = NoSaved]
    /\ entrySched' = [entrySched EXCEPT ![t] = sched[t]]

\* line 147: ret = set_cpu_freq(...) has returned; goto done
InlineReturn(c) ==
    /\ pc[c] = "inline"
    /\ exPc[c] = "ret"
    /\ ret' = [ret EXCEPT ![c] = exRet[c]]
    /\ pc' = [pc EXCEPT ![c] = "done"]
    /\ exPc' = [exPc EXCEPT ![c] = "none"]
    /\ ExecLocalsDropped(c)
    /\ UNCHANGED <<cpu, target_freq, relation, sched, suspend_mutex,
                   device_suspended, workVars, policyCur, active, lifeVars,
                   nCalls, evlog, gateFlag, downSeen, resVars, initVars>>

\* line 150: cancel_work_sync(): dequeue a pending item, wait out a running one
CancelWorkSync(c) ==
    /\ pc[c] = "cancel"
    /\ ~workRunning[cpu[c]]
    /\ workPending' = [workPending EXCEPT ![cpu[c]] = FALSE]
    /\ pc' = [pc EXCEPT ![c] = "queue"]
    /\ UNCHANGED <<cpu, target_freq, relation, ret, sched, execVars, suspend_mutex,
                   device_suspended, cpu_work, workRunning, complete, wpc,
                   workOwner, policyCur, active, lifeVars, nCalls, evlog,
                   gateFlag, downSeen, entrySched, resVars, initVars>>

\* lines 151-152: INIT_COMPLETION(), then queue_work_on(), which has no effect
\* on an item that is already pending
QueueWork(c) ==
    /\ pc[c] = "queue"
    /\ complete' = [complete EXCEPT ![cpu[c]] = 0]
    /\ IF workPending[cpu[c]]
       THEN UNCHANGED <<workPending, workOwner>>
       ELSE /\ workPending' = [workPending EXCEPT ![cpu[c]] = TRUE]
            /\ workOwner' = [workOwner EXCEPT ![cpu[c]] = c]
    /\ pc' = [pc EXCEPT ![c] = "wait"]
    /\ UNCHANGED <<cpu, target_freq, relation, ret, sched, execVars, suspend_mutex,
                   device_suspended, cpu_work, workRunning, wpc,
                   policyCur, active, lifeVars, nCalls, evlog, gateFlag, downSeen,
                   entrySched, resVars, initVars>>

\* lines 153-156: wait_for_completion(), ret = cpu_work->status
WaitForCompletion(c) ==
    /\ pc[c] = "wait"
    /\ CompletionDone(cpu[c])
    /\ complete' = [complete EXCEPT ![cpu[c]] = ConsumeDone(@)]
    /\ ret' = [ret EXCEPT ![c] = cpu_work[cpu[c]].status]
    /\ pc' = [pc EXCEPT ![c] = "done"]
    /\ UNCHANGED <<cpu, target_freq, relation, sched, execVars, suspend_mutex,
                   device_suspended, cpu_work, workPending, workRunning, wpc,
                   workOwner, policyCur, active, lifeVars, nCalls, evlog,
                   gateFlag, downSeen, entrySched, resVars, initVars>>

\* lines 158-161: free_cpumask_var(), mutex_unlock(), return ret
Unlock(c) ==
    /\ pc[c] = "done"
    /\ suspend_mutex' = [suspend_mutex EXCEPT ![cpu[c]] = NoTask]
    /\ pc' = [pc EXCEPT ![c] = "idle"]
    /\ cpu' = [cpu EXCEPT ![c] = CpuOrder[1]]
    /\ target_freq' = [target_freq EXCEPT ![c] = 0]
    /\ relation' = [relation EXCEPT ![c] = CPUFREQ_RELATION_L]
    /\ ret' = [ret EXCEPT ![c] = 0]
    /\ evlog' = [evlog EXCEPT ![c] = <<>>]
    /\ gateFlag' = [gateFlag EXCEPT ![c] = -1]
    /\ downSeen' = [downSeen EXCEPT ![c] = FALSE]
    /\ UNCHANGED <<sched, execVars, device_suspended, workVars,
                   policyCur, active, lifeVars, nCalls, entrySched, resVars, initVars>>

\* ------------------------------------------------------------ set_cpu_freq
\* lines 55-76: freqs from policy->cur and new_freq, optional elevation to
\* SCHED_FIFO / MAX_RT_PRIO-1, CPUFREQ_PRECHANGE notification
ExecBegin(t) ==
    /\ exPc[t] = "begin"
    /\ LET slot == cpu_work[SlotOf(t)]
           new == slot.frequency
           old == policyCur[slot.policy]
       IN /\ freqs' = [freqs EXCEPT ![t] = [old |-> old, new |-> new]]
          /\ exCpu' = [exCpu EXCEPT ![t] = slot.policy]
          /\ entrySched' = [entrySched EXCEPT ![t] = sched[t]]
          /\ IF NeedsElevation(new, old, sched[t].policy)
             THEN /\ saved' = [saved EXCEPT ![t] = sched[t]]
                  /\ sched' = [sched EXCEPT ![t] = SchedSet(SCHED_FIFO, MAX_RT_PRIO - 1)]
             ELSE /\ saved' = [saved EXCEPT ![t] = NoSaved]
                  /\ sched' = sched
          /\ evlog' = Logged(t, <<"pre", slot.policy, old, new>>)
    /\ exRet' = [exRet EXCEPT ![t] = 0]
    /\ exPc' = [exPc EXCEPT ![t] = "clk"]
    /\ UNCHANGED <<callVars, suspend_mutex, device_suspended, workVars, policyCur,
                   active, lifeVars, nCalls, gateFlag, downSeen, resVars, initVars>>

\* line 78: ret = acpuclk_set_rate(policy->cpu, new_freq, SETRATE_CPUFREQ)
ExecClockSet(t, r) ==
    /\ exPc[t] = "clk"
    /\ exRet' = [exRet EXCEPT ![t] = r]
    /\ evlog' = Logged(t, <<"set", exCpu[t], freqs[t].new, r>>)
    /\ exPc' = [exPc EXCEPT ![t] = "end"]
    /\ UNCHANGED <<callVars, sched, exCpu, freqs, saved, suspend_mutex,
                   device_suspended, workVars, policyCur, active, lifeVars,
                   nCalls, gateFlag, downSeen, entrySched, resVars, initVars>>

\* lines 79-87: CPUFREQ_POSTCHANGE notification if !ret, restore, return ret
ExecEnd(t) ==
    /\ exPc[t] = "end"
    /\ IF PostNotified(exRet[t])
       THEN /\ evlog' = Logged(t, <<"post", exCpu[t], freqs[t].old, freqs[t].new>>)
            /\ policyCur' = [policyCur EXCEPT ![exCpu[t]] =
                                NotifyPostCur(@, freqs[t].new)]
       ELSE UNCHANGED <<evlog, policyCur>>
    /\ IF NeedsRestore(freqs[t].new, freqs[t].old, saved[t].policy, exRet[t])
       THEN sched' = [sched EXCEPT ![t] =
                        SchedSet(saved[t].policy, RestorePrio(saved[t].rt_priority))]
       ELSE sched' = sched
    /\ exPc' = [exPc EXCEPT ![t] = "ret"]
    /\ UNCHANGED <<callVars, exCpu, freqs, exRet, saved, suspend_mutex,
                   device_suspended, workVars, active, lifeVars, nCalls,
                   gateFlag, downSeen, entrySched, resVars, initVars>>

\* ------------------------------------------------------------ set_cpu_work
\* the kworker of cpu k takes the queued item and enters set_cpu_work (line 90)
WorkerPick(k) ==
    /\ wpc[k] = "idle"
    /\ workPending[k]
    /\ workPending' = [workPending EXCEPT ![k] = FALSE]
    /\ workRunning' = [workRunning EXCEPT ![k] = TRUE]
    /\ wpc' = [wpc EXCEPT ![k] = "exec"]
    /\ exPc' = [exPc EXCEPT ![Worker(k)] = "begin"]
    /\ UNCHANGED <<callVars, sched, exCpu, freqs, exRet, saved, suspend_mutex,
                   device_suspended, cpu_work, complete, workOwner, policyCur,
                   active, lifeVars, nCalls, evlog, gateFlag, downSeen, entrySched, resVars, initVars>>

\* lines 95-97: cpu_work->status = set_cpu_freq(...); complete(); the work
\* function returns
WorkerComplete(k) ==
    /\ wpc[k] = "exec"
    /\ exPc[Worker(k)] = "ret"
    /\ cpu_work' = [cpu_work EXCEPT ![k].status = WorkStatus(k, exRet[Worker(k)])]
    /\ exPc' = [exPc EXCEPT ![Worker(k)] = "none"]
    /\ ExecLocalsDropped(Worker(k))
    /\ complete' = [complete EXCEPT ![k] = SignalDone(@)]
    /\ workRunning' = [workRunning EXCEPT ![k] = FALSE]
    /\ wpc' = [wpc EXCEPT ![k] = "idle"]
    /\ workOwner' = [workOwner EXCEPT ![k] = IF workPending[k] THEN @ ELSE NoTask]
    /\ UNCHANGED <<callVars, sched, suspend_mutex, device_suspended, workPending,
                   policyCur, active, lifeVars, nCalls, evlog, gateFlag, downSeen, resVars, initVars>>

\* ------------------------------------------------ msm_cpufreq_cpu_callback
\* bookkeeping for the callers waiting at mutex_lock for the mutex of cpu k:
\* a CPU_DOWN_PREPARE of k has returned / a handler has cleared the flag of k
DownSeenBy(k) ==
    [c \in Callers |-> IF pc[c] = "lock" /\ cpu[c] = k THEN TRUE ELSE downSeen[c]]
ClearSeenBy(k) ==
    [c \in Callers |-> IF pc[c] = "lock" /\ cpu[c] = k THEN FALSE ELSE downSeen[c]]

lifeRest == <<callVars, sched, execVars, workVars, policyCur, active, nCalls,
              evlog, gateFlag, entrySched, resVars, initVars>>

\* lines 244-247: CPU_ONLINE, CPU_ONLINE_FROZEN
CpuOnline(k) ==
    /\ lpc = "idle"
    /\ nEvents < MaxEvents
    /\ nEvents' = nEvents + 1
    /\ device_suspended' = [device_suspended EXCEPT ![k] = 0]
    /\ downSeen' = ClearSeenBy(k)
    /\ UNCHANGED <<lpc, lcpu, suspend_mutex, lifeRest>>

\* line 256: the value CPU_DOWN_FAILED stores over the flag
DownFailedFlag_Unchanged(flag) == flag
DownFailedFlag(flag) == 0

\* lines 254-257: CPU_DOWN_FAILED, CPU_DOWN_FAILED_FROZEN
CpuDownFailed(k) ==
    /\ lpc = "idle"
    /\ nEvents < MaxEvents
    /\ nEvents' = nEvents + 1
    /\ device_suspended' = [device_suspended EXCEPT ![k] = DownFailedFlag(@)]
    /\ downSeen' = ClearSeenBy(k)
    /\ UNCHANGED <<lpc, lcpu, suspend_mutex, lifeRest>>

\* lines 248-249: CPU_DOWN_PREPARE, CPU_DOWN_PREPARE_FROZEN delivered
DownPrepareStart(i) ==
    /\ lpc = "idle"
    /\ nEvents < MaxEvents
    /\ nEvents' = nEvents + 1
    /\ lpc' = "dp_lock"
    /\ lcpu' = i
    /\ UNCHANGED <<suspend_mutex, device_suspended, downSeen, lifeRest>>

\* line 250
DownPrepareLock ==
    /\ lpc = "dp_lock"
    /\ MutexFree(CpuOrder[lcpu])
    /\ suspend_mutex' = [suspend_mutex EXCEPT ![CpuOrder[lcpu]] = Hotplug]
    /\ lpc' = "dp_set"
    /\ UNCHANGED <<lcpu, nEvents, device_suspended, downSeen, lifeRest>>

\* lines 251-253, 260: the flag write and mutex_unlock(), return NOTIFY_OK
DownPrepareSet ==
    /\ lpc = "dp_set"
    /\ device_suspended' = [device_suspended EXCEPT ![CpuOrder[lcpu]] = 1]
    /\ suspend_mutex' = [suspend_mutex EXCEPT ![CpuOrder[lcpu]] = NoTask]
    /\ downSeen' = DownSeenBy(CpuOrder[lcpu])
    /\ lpc' = "idle"
    /\ lcpu' = 1
    /\ UNCHANGED <<nEvents, lifeRest>>

\* ----------------------------------- msm_cpufreq_suspend / msm_cpufreq_resume
\* lines 273-278: entry and the first iteration of for_each_possible_cpu
SuspendStart ==
    /\ lpc = "idle"
    /\ nEvents < MaxEvents
    /\ nEvents' = nEvents + 1
    /\ device_suspended' = [device_suspended EXCEPT ![CpuOrder[1]] = 1]
    /\ IF Len(CpuOrder) = 1
       THEN lpc' = "idle" /\ lcpu' = 1
       ELSE lpc' = "suspend" /\ lcpu' = 2
    /\ UNCHANGED <<suspend_mutex, downSeen, lifeRest>>

\* lines 277-281: a further iteration; return 0 after the last
SuspendStep ==
    /\ lpc = "suspend"
    /\ device_suspended' = [device_suspended EXCEPT ![CpuOrder[lcpu]] = 1]
    /\ IF lcpu = Len(CpuOrder)
       THEN lpc' = "idle" /\ lcpu' = 1
       ELSE lpc' = lpc /\ lcpu' = lcpu + 1
    /\ UNCHANGED <<nEvents, suspend_mutex, downSeen, lifeRest>>

\* lines 284-289: entry and the first iteration of for_each_possible_cpu
ResumeStart ==
    /\ lpc = "idle"
    /\ nEvents < MaxEvents
    /\ nEvents' = nEvents + 1
    /\ device_suspended' = [device_suspended EXCEPT ![CpuOrder[1]] = 0]
    /\ IF Len(CpuOrder) = 1
       THEN lpc' = "idle" /\ lcpu' = 1
       ELSE lpc' = "resume" /\ lcpu' = 2
    /\ downSeen' = ClearSeenBy(CpuOrder[1])
    /\ UNCHANGED <<suspend_mutex, lifeRest>>

\* lines 288-292
ResumeStep ==
    /\ lpc = "resume"
    /\ device_suspended' = [device_suspended EXCEPT ![CpuOrder[lcpu]] = 0]
    /\ IF lcpu = Len(CpuOrder)
       THEN lpc' = "idle" /\ lcpu' = 1
       ELSE lpc' = lpc /\ lcpu' = lcpu + 1
    /\ downSeen' = ClearSeenBy(CpuOrder[lcpu])
    /\ UNCHANGED <<nEvents, suspend_mutex, lifeRest>>

\* ------------------------------------------------------------- environment
\* cpu_active(cpu) is owned by the scheduler's hotplug handling; the driver
\* only reads it (line 110)
SetActive(k, b) ==
    /\ active[k] # b
    /\ nEvents < MaxEvents
    /\ nEvents' = nEvents + 1
    /\ active' = [active EXCEPT ![k] = b]
    /\ UNCHANGED <<callVars, sched, execVars, suspend_mutex, device_suspended,
                   workVars, policyCur, lpc, lcpu, nCalls, evlog, gateFlag, downSeen,
                   entrySched, resVars, initVars>>

\* ------------------------------------------------------------------- Next
Next ==
    \/ \E c \in Callers, k \in Cores, tf \in Targets, rel \in Relations,
          allocOk \in BOOLEAN : Call(c, k, tf, rel, allocOk)
    \/ \E c \in Callers : EarlyReturn(c)
    \/ \E c \in Callers : Lock(c)
    \/ \E c \in Callers : Gate(c)
    \/ \E c \in Callers : InlineReturn(c)
    \/ \E c \in Callers : CancelWorkSync(c)
    \/ \E c \in Callers : QueueWork(c)
    \/ \E c \in Callers : WaitForCompletion(c)
    \/ \E c \in Callers : Unlock(c)
    \/ \E t \in Tasks : ExecBegin(t)
    \/ \E t \in Tasks, r \in ClkResults : ExecClockSet(t, r)
    \/ \E t \in Tasks : ExecEnd(t)
    \/ \E k \in Cores : WorkerPick(k)
    \/ \E k \in Cores : WorkerComplete(k)
    \/ \E k \in Cores : CpuOnline(k)
    \/ \E k \in Cores : CpuDownFailed(k)
    \/ \E i \in 1..Len(CpuOrder) : DownPrepareStart(i)
    \/ DownPrepareLock
    \/ DownPrepareSet
    \/ SuspendStart
    \/ SuspendStep
    \/ ResumeStart
    \/ ResumeStep
    \/ \E k \in Cores, b \in BOOLEAN : SetActive(k, b)

Spec == Init /\ [][Next]_vars

\* ------------------------------------------------ scheduling (SpecLive)
\* A task that can take a step of the driver eventually takes it: callers and
\* kworkers are scheduled, acpuclk_set_rate() and the notifier chains return.
\* mutex_lock() (lines 118, 250) puts the task on the mutex's wait list: a
\* waiter gets a mutex that is released again and again.  Nothing obliges the
\* environment to make calls or to deliver lifecycle events.
CallerFair(c) ==
    /\ WF_vars(EarlyReturn(c) \/ Gate(c) \/ InlineReturn(c) \/ CancelWorkSync(c)
                \/ QueueWork(c) \/ WaitForCompletion(c) \/ Unlock(c))
    /\ SF_vars(Lock(c))
ExecFair(t) ==
    WF_vars(ExecBegin(t) \/ (\E r \in ClkResults : ExecClockSet(t, r)) \/ ExecEnd(t))
WorkerFair(k) == WF_vars(WorkerPick(k) \/ WorkerComplete(k))
HotplugFair ==
    /\ SF_vars(DownPrepareLock)
    /\ WF_vars(DownPrepareSet \/ SuspendStep \/ ResumeStep)
Fairness ==
    /\ \A c \in Callers : CallerFair(c)
    /\ \A t \in Tasks : ExecFair(t)
    /\ \A k \in Cores : WorkerFair(k)
    /\ HotplugFair

\* the calls of SpecLive all ask for the lowest frequency at or above the
\* target (a hit for one target, InvalidTarget for the other)
NextLive ==
    \/ \E c \in Callers, k \in Cores, tf \in Targets, allocOk \in BOOLEAN :
          Call(c, k, tf, CPUFREQ_RELATION_L, allocOk)
    \/ \E c \in Callers : EarlyReturn(c)
    \/ \E c \in Callers : Lock(c)
    \/ \E c \in Callers : Gate(c)
    \/ \E c \in Callers : InlineReturn(c)
    \/ \E c \in Callers : CancelWorkSync(c)
    \/ \E c \in Callers : QueueWork(c)
    \/ \E c \in Callers : WaitForCompletion(c)
    \/ \E c \in Callers : Unlock(c)
    \/ \E t \in Tasks : ExecBegin(t)
    \/ \E t \in Tasks, r \in ClkResults : ExecClockSet(t, r)
    \/ \E t \in Tasks : ExecEnd(t)
    \/ \E k \in Cores : WorkerPick(k)
    \/ \E k \in Cores : WorkerComplete(k)
    \/ \E k \in Cores : CpuOnline(k)
    \/ \E k \in Cores : CpuDownFailed(k)
    \/ \E i \in 1..Len(CpuOrder) : DownPrepareStart(i)
    \/ DownPrepareLock
    \/ DownPrepareSet
    \/ SuspendStart
    \/ SuspendStep
    \/ ResumeStart
    \/ ResumeStep
    \/ \E k \in Cores, b \in BOOLEAN : SetActive(k, b)

SpecLive == Init /\ [][NextLive]_vars /\ Fairness

\* ------------------------------------------- set_cpu_freq on its own (SpecApply)
\* Task "a" has passed the gate of msm_cpufreq_target for cpu0 on the inline
\* path (line 147) and is about to enter set_cpu_freq; its scheduling class and
\* priority, policy->cur and the selected frequency range over all inputs.
TableEntries == {FreqTable[i] : i \in 1..Len(FreqTable)}
ApplyTask == <<"caller", "a">>

InitApply ==
    /\ pc = [c \in Callers |-> IF c = ApplyTask THEN "inline" ELSE "idle"]
    /\ cpu = [c \in Callers |-> CpuOrder[1]]
    /\ target_freq \in {[c \in Callers |-> IF c = ApplyTask THEN tf ELSE 0] : tf \in TableEntries}
    /\ relation = [c \in Callers |-> CPUFREQ_RELATION_L]
    /\ ret = [c \in Callers |-> IF c = ApplyTask THEN -EFAULT ELSE 0]
    /\ sched \in {[t \in Tasks |-> IF t = ApplyTask THEN si ELSE TaskSched(t)]
                  : si \in SchedInputs}
    /\ exPc = [t \in Tasks |-> IF t = ApplyTask THEN "begin" ELSE "none"]
    /\ exCpu = [t \in Tasks |-> CpuOrder[1]]
    /\ freqs = [t \in Tasks |-> [old |-> 0, new |-> 0]]
    /\ exRet = [t \in Tasks |-> 0]
    /\ saved = [t \in Tasks |-> NoSaved]
    /\ suspend_mutex = [k \in Cores |-> IF k = CpuOrder[1] THEN ApplyTask ELSE NoTask]
    /\ device_suspended = [k \in Cores |-> 0]
    /\ cpu_work = [k \in Cores |->
                     IF k = CpuOrder[1]
                     THEN [policy |-> k, frequency |-> target_freq[ApplyTask],
                           status |-> PlaceholderStatus]
                     ELSE [policy |-> k, frequency |-> 0, status |-> 0]]
    /\ workPending = [k \in Cores |-> FALSE]
    /\ workRunning = [k \in Cores |-> FALSE]
    /\ complete = [k \in Cores |-> 0]
    /\ wpc = [k \in Cores |-> "idle"]
    /\ policyCur \in {[k \in Cores |-> IF k = CpuOrder[1] THEN f ELSE FreqTable[2]]
                      : f \in TableEntries}
    /\ active = [k \in Cores |-> TRUE]
    /\ lpc = "idle"
    /\ lcpu = 1
    /\ nCalls = 1
    /\ nEvents = 0
    /\ evlog = [c \in Callers |-> <<>>]
    /\ workOwner = [k \in Cores |-> NoTask]
    /\ gateFlag = [c \in Callers |-> IF c = ApplyTask THEN 0 ELSE -1]
    /\ downSeen = [c \in Callers |-> FALSE]
    /\ entrySched = [t \in Tasks |-> sched[t]]
    /\ ResolveOff
    /\ InitOff

NextApply ==
    \/ ExecBegin(ApplyTask)
    \/ \E r \in ClkResults : ExecClockSet(ApplyTask, r)
    \/ ExecEnd(ApplyTask)
    \/ InlineReturn(ApplyTask)
    \/ Unlock(ApplyTask)

SpecApply == InitApply /\ [][NextApply]_vars

\* --------------------------- the table lookup of set_target on its own (SpecResolve)
\* Lines 127-141 applied to every table of at most MaxLen entries over
\* 1..MaxFreq, every target in 0..MaxFreq+1 and both relations.
Tables == UNION {[1..n -> 1..MaxFreq] : n \in 0..MaxLen}

InitResolve ==
    /\ MainInit
    /\ rTable \in Tables
    /\ rTarget \in 0..(MaxFreq + 1)
    /\ rRel \in Relations
    /\ rPc = "lookup"
    /\ rRet = 0
    /\ rFreq = 0

LookupStep ==
    /\ rPc = "lookup"
    /\ LET r == TargetLookup(rTable, rTarget, rRel)
       IN /\ rRet' = r.ret
          /\ rFreq' = r.frequency
    /\ rPc' = "done"
    /\ UNCHANGED <<rTable, rTarget, rRel, callVars, sched, execVars, suspend_mutex,
                   device_suspended, workVars, policyCur, active, lifeVars,
                   nCalls, evlog, gateFlag, downSeen, entrySched, initVars>>

NextResolve == LookupStep

SpecResolve == InitResolve /\ [][NextResolve]_vars

\* ------------------------------------ msm_cpufreq_init on its own (SpecInit)
\* msm_cpufreq_init for one cpu, right after msm_cpufreq_register: every table
\* of at most MaxLen entries over 1..MaxFreq, every hardware rate in
\* 0..MaxFreq+1; policy->cur is still zero.
mainVars == <<callVars, sched, execVars, suspend_mutex, device_suspended,
              cpu_work, workRunning, wpc, workOwner, active, lifeVars, nCalls,
              evlog, gateFlag, downSeen, entrySched>>

InitInit ==
    /\ DriverInit
    /\ policyCur = [k \in Cores |-> 0]
    /\ rTable \in Tables
    /\ rTarget = 0
    /\ rRel = CPUFREQ_RELATION_L
    /\ rPc = "off"
    /\ rRet = 0
    /\ rFreq = 0
    /\ initPc = "entry"
    /\ initCpu \in Cores
    /\ acpuRate \in 0..(MaxFreq + 1)
    /\ cur_freq = 0
    /\ initIndex = 0
    /\ initRet = 0
    /\ initClk = <<>>

\* lines 206-209: the relations msm_cpufreq_init tries, in order
InitRelations_UpFirst == <<CPUFREQ_RELATION_L, CPUFREQ_RELATION_H>>
InitRelations == <<CPUFREQ_RELATION_H, CPUFREQ_RELATION_L>>

\* lines 206-209: "target(.., first) && target(.., second)": the second lookup
\* is made only if the first one failed, and index is the one of the lookup
\* that succeeded
NormalizeLookup(table, freq) ==
    LET first == TableTarget(table, freq, InitRelations[1])
    IN IF first.err = 0 THEN first
                        ELSE TableTarget(table, freq, InitRelations[2])

\* lines 183-213: table == NULL gives -ENODEV; cur_freq = acpuclk_get_rate();
\* the two lookups; -EINVAL if both fail
InitLookup(hasTable) ==
    /\ initPc = "entry"
    /\ IF ~hasTable
       THEN /\ initRet' = -ENODEV
            /\ initPc' = "done"
            /\ UNCHANGED <<cur_freq, initIndex>>
       ELSE /\ cur_freq' = acpuRate
            /\ LET r == NormalizeLookup(rTable, acpuRate)
               IN IF r.err # 0
                  THEN /\ initRet' = -EINVAL
                       /\ initPc' = "done"
                       /\ initIndex' = initIndex
                  ELSE /\ initRet' = initRet
                       /\ initPc' = "normalize"
                       /\ initIndex' = r.index
    /\ UNCHANGED <<mainVars, policyCur, workPending, complete, resVars,
                   initCpu, acpuRate, initClk>>

\* lines 215-224: acpuclk_set_rate() if the hardware rate is not the entry;
\* its failure is returned
InitNormalize(r) ==
    /\ initPc = "normalize"
    /\ IF cur_freq # rTable[initIndex]
       THEN /\ initClk' = Append(initClk, [from |-> cur_freq,
                                           freq |-> rTable[initIndex],
                                           ret |-> r])
            /\ IF r # 0
               THEN /\ initRet' = r
                    /\ initPc' = "done"
                    /\ UNCHANGED <<acpuRate, cur_freq>>
               ELSE /\ acpuRate' = rTable[initIndex]
                    /\ cur_freq' = rTable[initIndex]
                    /\ initPc' = "record"
                    /\ initRet' = initRet
       ELSE /\ initPc' = "record"
            /\ UNCHANGED <<initClk, initRet, acpuRate, cur_freq>>
    /\ UNCHANGED <<mainVars, policyCur, workPending, complete, resVars,
                   initCpu, initIndex>>

\* lines 226-235: policy->cur = cur_freq; INIT_WORK(); init_completion();
\* return 0
InitRecord ==
    /\ initPc = "record"
    /\ policyCur' = [policyCur EXCEPT ![initCpu] = cur_freq]
    /\ workPending' = [workPending EXCEPT ![initCpu] = FALSE]
    /\ complete' = [complete EXCEPT ![initCpu] = 0]
    /\ initRet' = 0
    /\ initPc' = "done"
    /\ UNCHANGED <<mainVars, resVars, initCpu, acpuRate, cur_freq, initIndex,
                   initClk>>

NextInit ==
    \/ \E hasTable \in BOOLEAN : InitLookup(hasTable)
    \/ \E r \in ClkResults : InitNormalize(r)
    \/ InitRecord

SpecInit == InitInit /\ [][NextInit]_vars

\* ================================================================ claims
\* helpers for reading a call's log of notifications and clock-set calls
Kinds(log) == [i \in 1..Len(log) |-> log[i][1]]
InRegion(c, k) == cpu[c] = k /\ pc[c] \in {"check", "inline", "cancel", "queue", "wait", "done"}
PastGate(c, k) == cpu[c] = k /\ gateFlag[c] = 0 /\ pc[c] \in {"inline", "cancel", "queue", "wait", "done"}
InFlight(k) == {t \in Tasks : exPc[t] \in {"clk", "end"} /\ exCpu[t] = k}
Passed(c) == /\ pc[c] = "done"
             /\ gateFlag[c] = 0
             /\ TargetLookup(FreqTable, target_freq[c], relation[c]).ok
Remote(c) == ~CpumaskEqual({cpu[c]}, CpusAllowed(c))

\* C1 (amended): a set_target call that reads the suspended flag as true at
\* its gate check (it passed the cpu_active check and the cpumask allocation)
\* fails with DeviceSuspended (-EFAULT), emits no notification, makes no
\* clock-set call and queues no work; a call stopped before the gate returns
\* CoreInactive (-ENODEV) or -ENOMEM, also without notification or clock-set.
C1_SuspendedAtGateFails ==
    \A c \in Callers :
        /\ gateFlag[c] = 1 =>
              /\ pc[c] = "done"
              /\ ret[c] = -EFAULT
              /\ evlog[c] = <<>>
              /\ exPc[c] = "none"
              /\ workOwner[cpu[c]] # c
        /\ pc[c] = "return" =>
              /\ ret[c] \in {-ENODEV, -ENOMEM}
              /\ evlog[c] = <<>>
              /\ exPc[c] = "none"

\* C1 witness: a call has read the flag as true at the gate and is about to return
C1_Witness ==
    \E c \in Callers : gateFlag[c] = 1 /\ pc[c] = "done" /\ device_suspended[cpu[c]] = 1

\* C1 as originally stated: whenever the outcome of a set_target call is decided
\* (at entry or at the gate) on a core whose suspended flag is true, the
\* outcome is DeviceSuspended (failed cpumask allocations left aside).
C1_Original ==
    [][\A c \in Callers :
          /\ pc[c] \in {"idle", "check"}
          /\ pc'[c] \in {"return", "done"}
          /\ device_suspended[cpu'[c]] # 0
          /\ ret'[c] # -ENOMEM
          => ret'[c] = -EFAULT]_vars

\* C2: at most one run of set_cpu_freq is in flight (between its pre-change
\* notification and its return) per core, whichever mix of inline and remote
\* callers targets the core.
C2_OneTransitionPerCore ==
    \A k \in Cores : Cardinality(InFlight(k)) <= 1

\* C2 witness: the kworker of a core runs a transition for a remote caller
\* while an inline caller of the same core waits for the mutex
C2_Witness ==
    \E k \in Cores, c \in Callers :
        /\ Worker(k) \in InFlight(k)
        /\ pc[c] = "lock" /\ cpu[c] = k /\ ~Remote(c)

\* C3 as stated: once a handler that set a core's suspended flag has returned
\* and while the flag stays true, no run of set_cpu_freq begins (emits its
\* pre-change notification) for that core.
C3_NoStartAfterSuspend ==
    [][\A k \in Cores :
          (lpc = "idle" /\ device_suspended[k] # 0 /\ device_suspended'[k] # 0)
          => ~ \E t \in Tasks : exPc[t] = "begin" /\ exPc'[t] = "clk" /\ exCpu'[t] = k]_vars

\* C4 as stated: a core's suspended flag never changes value while a call is
\* between its gate check and the release of the mutex on that core.
C4_FlagStableInFlight ==
    [][\A k \in Cores :
          (\E c \in Callers : PastGate(c, k))
          => device_suspended'[k] = device_suspended[k]]_vars

\* C5 (amended): in set_cpu_freq the task is switched to SCHED_FIFO at priority
\* MAX_RT_PRIO-1 if and only if the new frequency is strictly greater than the
\* old one and the task's class at entry is not SCHED_FIFO; otherwise its class
\* and priority are left as they were.
Elevated(t) == sched[t] # entrySched[t] /\ sched[t] = SchedSet(SCHED_FIFO, MAX_RT_PRIO - 1)
C5_ElevatedIffUpAndNotFifo ==
    \A t \in Tasks :
        exPc[t] \in {"clk", "end"} =>
            /\ Elevated(t) <=> (freqs[t].new > freqs[t].old /\ entrySched[t].policy # SCHED_FIFO)
            /\ ~Elevated(t) => sched[t] = entrySched[t]

\* C5 witness: a SCHED_RR task is elevated for an upward transition
C5_Witness ==
    \E t \in Tasks :
        /\ exPc[t] = "clk"
        /\ Elevated(t)
        /\ entrySched[t].policy = SCHED_RR
        /\ freqs[t].new > freqs[t].old

\* C5 as originally stated: the task runs at the fixed real-time priority
\* during the clock-set if and only if new > old, whatever class it started in.
C5_Original ==
    \A t \in Tasks :
        exPc[t] \in {"clk", "end"} =>
            /\ freqs[t].new > freqs[t].old => sched[t] = SchedSet(SCHED_FIFO, MAX_RT_PRIO - 1)
            /\ freqs[t].new <= freqs[t].old => sched[t] = entrySched[t]

\* C6: when set_cpu_freq returns, the task's scheduling class and priority are
\* what they were at entry, after success and after failure of the clock-set,
\* for upward, downward and equal-frequency transitions.
C6_SchedRestored ==
    \A t \in Tasks : exPc[t] = "ret" => sched[t] = entrySched[t]

\* C6 witness: an elevated SCHED_RR task has returned from a failed clock-set
C6_Witness ==
    \E t \in Tasks :
        /\ exPc[t] = "ret"
        /\ exRet[t] # 0
        /\ saved[t] = [policy |-> SCHED_RR, rt_priority |-> 7]
        /\ freqs[t].new > freqs[t].old

\* C7: remote calls on one core serialize: while a core's work item is queued
\* or running, or its completion has fired and not been consumed, the caller
\* that queued it waits holding the core's mutex and no other call is past
\* the lock of that core, so nobody rewrites the request slot.
C7_RemoteCallsSerialize ==
    \A k \in Cores :
        (workPending[k] \/ workRunning[k] \/ complete[k] > 0) =>
            \E c \in Callers :
                /\ workOwner[k] = c \/ (complete[k] > 0 /\ ~workRunning[k])
                /\ pc[c] = "wait" /\ cpu[c] = k
                /\ suspend_mutex[k] = c
                /\ \A d \in Callers \ {c} : ~InRegion(d, k)
                /\ cpu_work[k].frequency =
                       TargetLookup(FreqTable, target_freq[c], relation[c]).frequency

\* C7 witness: a second remote call on the core waits for the mutex while the
\* first call's work item runs
C7_Witness ==
    \E k \in Cores, c, d \in Callers :
        /\ c # d
        /\ workRunning[k] /\ pc[c] = "wait" /\ cpu[c] = k
        /\ pc[d] = "lock" /\ cpu[d] = k /\ Remote(d)

\* C8: the lookup of set_target returns an entry of the table that is the
\* closest one in the rounding direction (largest entry <= target for
\* RELATION_H, smallest entry >= target for RELATION_L), returns the target
\* itself when the table holds it, and fails with InvalidTarget (-EINVAL)
\* exactly when no entry satisfies the relation.
Fitting(table, target, rel) ==
    {table[i] : i \in {j \in 1..Len(table) :
                         IF rel = CPUFREQ_RELATION_H THEN table[j] <= target
                                                     ELSE table[j] >= target}}
C8_ResolveClosest ==
    rPc = "done" =>
        LET S == Fitting(rTable, rTarget, rRel)
        IN IF S = {}
           THEN rRet = -EINVAL
           ELSE /\ rRet = 0
                /\ rFreq \in S
                /\ \A e \in S : IF rRel = CPUFREQ_RELATION_H THEN e <= rFreq ELSE e >= rFreq
                /\ rTarget \in S => rFreq = rTarget

\* C8 witness: a lookup in an unsorted table rounds to an entry other than
\* the first one and other than the target
C8_Witness ==
    /\ rPc = "done" /\ rRet = 0
    /\ rFreq # rTarget
    /\ Len(rTable) = MaxLen
    /\ rFreq # rTable[1]
    /\ rTable[1] > rTable[2]

\* C9: a call that passed the gate and the lookup returns the result of the
\* one clock-set call made for it, on the inline and on the remote path.
C9_ReturnsClockSetResult ==
    \A c \in Callers :
        Passed(c) =>
            \E i \in 1..Len(evlog[c]) :
                /\ evlog[c][i][1] = "set"
                /\ evlog[c][i][4] = ret[c]
                /\ \A j \in 1..Len(evlog[c]) : evlog[c][j][1] = "set" => j = i

\* C9 witness: a remote call returns a clock-set failure
C9_Witness ==
    \E c \in Callers : Passed(c) /\ Remote(c) /\ ret[c] = -EIO

\* C10: a call that passed the gate and the lookup has produced, in order, one
\* pre-change notification, one clock-set call with the selected frequency
\* and, exactly when the clock-set succeeded, one post-change notification;
\* also when the selected frequency equals the current one.
C10_NotificationOrder ==
    \A c \in Callers :
        Passed(c) =>
            LET f == TargetLookup(FreqTable, target_freq[c], relation[c]).frequency
                log == evlog[c]
            IN /\ Kinds(log) = IF ret[c] = 0 THEN <<"pre", "set", "post">>
                                             ELSE <<"pre", "set">>
               /\ log[1][2] = cpu[c] /\ log[1][4] = f
               /\ log[2][2] = cpu[c] /\ log[2][3] = f
               /\ ret[c] = 0 => log[3] = <<"post", cpu[c], log[1][3], f>>

\* C10 witness: a no-op transition (selected = current) went through pre,
\* clock-set and post
C10_Witness ==
    \E c \in Callers :
        /\ Passed(c)
        /\ Len(evlog[c]) = 3
        /\ evlog[c][1][3] = evlog[c][1][4]

\* C11: a calling task owns the mutex of the target core exactly while it is
\* between the mutex_lock of line 118 and the mutex_unlock of line 160: from
\* the suspended check on, through the lookup, the inline or remote transition
\* and up to the return, and never before the lock or after the return,
\* whatever the outcome (CoreInactive, out of memory, DeviceSuspended,
\* InvalidTarget, clock-set failure, success inline or remote).
C11_MutexHeldUntilReturn ==
    \A c \in Callers, k \in Cores : suspend_mutex[k] = c <=> InRegion(c, k)

\* C11 witness: the only call made so far went through the remote path,
\* changed the frequency of cpu1 and has returned; no mutex is held
C11_Witness ==
    /\ nCalls = 1
    /\ \A c \in Callers : pc[c] = "idle"
    /\ policyCur[CpuOrder[2]] # FreqTable[2]
    /\ \A k \in Cores : suspend_mutex[k] = NoTask

\* C12: under the scheduling of SpecLive every set_target call that has been
\* entered returns (also a caller waiting for the completion of its work item
\* while lifecycle events and other calls on the same core go on), and every
\* CPU_DOWN_PREPARE that has been delivered gets the mutex, sets the flag and
\* returns.
C12_NoStarvation ==
    /\ \A c \in Callers : (pc[c] # "idle") ~> (pc[c] = "idle")
    /\ (lpc \in {"dp_lock", "dp_set"}) ~> (lpc = "idle")

\* C12 witness: a remote caller waits for its completion while a second call
\* on the same core and a CPU_DOWN_PREPARE for that core wait for the mutex
C12_Witness ==
    \E c, d \in Callers :
        /\ c # d
        /\ pc[c] = "wait" /\ complete[cpu[c]] = 0
        /\ pc[d] = "lock" /\ cpu[d] = cpu[c]
        /\ lpc = "dp_lock" /\ CpuOrder[lcpu] = cpu[c]

\* C13: what the lifecycle handlers do to the suspended flags.  A CPU_ONLINE
\* or CPU_DOWN_FAILED step for a core clears that core's flag and leaves the
\* other flags alone; from its delivery to its return a CPU_DOWN_PREPARE
\* leaves the other cores' flags alone and it returns with its core's flag
\* set; msm_cpufreq_suspend returns with every flag set and
\* msm_cpufreq_resume with every flag clear.  An event delivered to a state
\* that already is the outcome of that event (a second delivery) changes no
\* flag at any of its steps.
AllFlags(v) == [k \in Cores |-> v]
LifecycleFlagsStep ==
    /\ \A k \in Cores :
         (CpuOnline(k) \/ CpuDownFailed(k)) =>
             device_suspended' = [device_suspended EXCEPT ![k] = 0]
    /\ lpc \in {"dp_lock", "dp_set"} =>
          /\ \A j \in Cores \ {CpuOrder[lcpu]} :
                 device_suspended'[j] = device_suspended[j]
          /\ lpc' = "idle" => device_suspended'[CpuOrder[lcpu]] = 1
    /\ (\E i \in 1..Len(CpuOrder) : DownPrepareStart(i)) =>
          device_suspended' = device_suspended
    /\ ((SuspendStart \/ SuspendStep) /\ lpc' = "idle") =>
          device_suspended' = AllFlags(1)
    /\ ((ResumeStart \/ ResumeStep) /\ lpc' = "idle") =>
          device_suspended' = AllFlags(0)
    /\ ((SuspendStart \/ SuspendStep) /\ device_suspended = AllFlags(1)) =>
          device_suspended' = device_suspended
    /\ ((ResumeStart \/ ResumeStep) /\ device_suspended = AllFlags(0)) =>
          device_suspended' = device_suspended
    /\ (lpc \in {"dp_lock", "dp_set"} /\ device_suspended[CpuOrder[lcpu]] = 1) =>
          device_suspended' = device_suspended
    /\ \A k \in Cores :
         ((CpuOnline(k) \/ CpuDownFailed(k)) /\ device_suspended[k] = 0) =>
             device_suspended' = device_suspended
C13_LifecycleFlags == [][LifecycleFlagsStep]_vars

\* C13 witness: with no call made and every core active, a second
\* msm_cpufreq_suspend is under way in a state where every flag is already set
C13_Witness ==
    /\ lpc = "suspend"
    /\ nEvents = MaxEvents
    /\ nCalls = 0
    /\ \A k \in Cores : active[k]
    /\ device_suspended = AllFlags(1)

\* C14: a set_target call entered for a core that is not active goes straight
\* to "return -ENODEV" (CoreInactive) and from there back to the caller; in
\* neither step is a mutex taken, the request slot or its status written, a
\* work item queued or cancelled, the completion touched, set_cpu_freq entered,
\* a notification sent or the clock set, and policy->cur stays as it was.
Untouched(c) ==
    /\ suspend_mutex' = suspend_mutex
    /\ cpu_work' = cpu_work
    /\ <<workPending, workRunning, workOwner, complete>>' =
           <<workPending, workRunning, workOwner, complete>>
    /\ exPc' = exPc
    /\ evlog' = evlog
    /\ policyCur' = policyCur
    /\ evlog[c] = <<>>
    /\ \A k \in Cores : suspend_mutex[k] # c /\ workOwner[k] # c
InactiveCallStep ==
    \A c \in Callers :
        /\ (pc[c] = "idle" /\ pc'[c] # "idle" /\ ~active[cpu'[c]]) =>
              /\ pc'[c] = "return"
              /\ ret'[c] = -ENODEV
              /\ Untouched(c)
        /\ (pc[c] = "return" /\ pc'[c] # "return" /\ ret[c] = -ENODEV) =>
              /\ pc'[c] = "idle"
              /\ Untouched(c)
C14_InactiveFailsFast == [][InactiveCallStep]_vars

\* C14 witness: a call on an inactive core is returning CoreInactive while
\* another caller holds that core's mutex for a transition in flight
C14_Witness ==
    \E c, d \in Callers :
        /\ pc[c] = "return" /\ ret[c] = -ENODEV /\ ~active[cpu[c]]
        /\ suspend_mutex[cpu[c]] = d
        /\ InFlight(cpu[c]) # {}

\* C15 (amended): msm_cpufreq_init resolves the hardware rate by rounding
\* down first (CPUFREQ_RELATION_H, the highest entry at or below it) and
\* rounds up (CPUFREQ_RELATION_L) only if no entry is at or below it; it fails
\* with -EINVAL exactly when the table has no entry at all to round to.  On
\* success policy->cur is that entry of the table; the clock is set, once and
\* to that entry, exactly when the entry differs from the rate the hardware
\* reported, and a failure of that clock-set is returned.
EntriesOf(table) == {table[i] : i \in 1..Len(table)}
SetMax(S) == CHOOSE x \in S : \A y \in S : y <= x
SetMin(S) == CHOOSE x \in S : \A y \in S : y >= x
ReportedRate == IF initClk = <<>> THEN acpuRate ELSE initClk[1].from
AtOrBelow == Fitting(rTable, ReportedRate, CPUFREQ_RELATION_H)
AtOrAbove == Fitting(rTable, ReportedRate, CPUFREQ_RELATION_L)
DownThenUp == IF AtOrBelow # {} THEN SetMax(AtOrBelow) ELSE SetMin(AtOrAbove)
UpThenDown == IF AtOrAbove # {} THEN SetMin(AtOrAbove) ELSE SetMax(AtOrBelow)
C15_InitRoundsDownFirst ==
    initPc = "done" =>
        /\ initRet \in {0, -EIO, -EINVAL, -ENODEV}
        /\ initRet = -EINVAL => (initClk = <<>> /\ AtOrBelow \cup AtOrAbove = {})
        /\ initRet = -ENODEV => initClk = <<>> /\ policyCur[initCpu] = 0
        /\ initRet \in {0, -EIO} =>
              /\ AtOrBelow \cup AtOrAbove # {}
              /\ initClk # <<>> <=> DownThenUp # ReportedRate
              /\ initClk # <<>> =>
                    /\ Len(initClk) = 1
                    /\ initClk[1].freq = DownThenUp
                    /\ initClk[1].ret = initRet
        /\ initRet = 0 =>
              /\ policyCur[initCpu] = DownThenUp
              /\ policyCur[initCpu] \in EntriesOf(rTable)
              /\ acpuRate = policyCur[initCpu]
        /\ initRet # 0 => policyCur[initCpu] = 0

\* C15 witness: the hardware rate lies strictly between two entries of the
\* table; init set the clock to the lower one and recorded it
C15_Witness ==
    /\ initPc = "done" /\ initRet = 0
    /\ initClk # <<>>
    /\ AtOrBelow # {} /\ AtOrAbove # {}
    /\ policyCur[initCpu] < ReportedRate

\* C15 as originally stated: on successful init the recorded frequency is the
\* result of rounding up, and of rounding down only if rounding up fails.
C15_Original ==
    (initPc = "done" /\ initRet = 0) => policyCur[initCpu] = UpThenDown

\* C16: policy->cur of a core follows the last transition applied to it.
\* It changes only at the post-change notification of a set_target call on
\* that core whose clock-set succeeded, and then to the frequency resolved
\* for that call; so a call that fails (CoreInactive, out of memory,
\* DeviceSuspended, InvalidTarget, clock-set failure) leaves it alone.  When
\* a call that passed the gate and the lookup is about to return, policy->cur
\* is its resolved frequency if its clock-set succeeded and is what it was
\* when the transition began if the clock-set failed.
Resolved(c) == TargetLookup(FreqTable, target_freq[c], relation[c]).frequency
CurChangeStep ==
    \A k \in Cores :
        policyCur'[k] # policyCur[k] =>
            \E t \in Tasks :
                /\ exPc[t] = "end" /\ exPc'[t] = "ret"
                /\ exCpu[t] = k
                /\ exRet[t] = 0
                /\ OwnerOf(t) \in Callers
                /\ cpu[OwnerOf(t)] = k
                /\ pc[OwnerOf(t)] \in {"inline", "wait"}
                /\ policyCur'[k] = Resolved(OwnerOf(t))
CurAtReturn ==
    \A c \in Callers :
        Passed(c) =>
            /\ ret[c] = 0 => policyCur[cpu[c]] = Resolved(c)
            /\ ret[c] # 0 => policyCur[cpu[c]] = evlog[c][1][3]
C16_CurTracksLastApplied == []CurAtReturn /\ [][CurChangeStep]_vars

\* C16 witness: an earlier call moved the core away from its initial
\* frequency; the present call resolved to another frequency, its clock-set
\* failed, and policy->cur still is what the earlier call left
C16_Witness ==
    \E c \in Callers :
        /\ Passed(c) /\ ret[c] = -EIO
        /\ policyCur[cpu[c]] # FreqTable[2]
        /\ Resolved(c) # policyCur[cpu[c]]

\* C17: a call that finds the flag clear at the gate and whose target has no
\* table entry in the direction of the requested relation leaves the gate
\* with InvalidTarget (-EINVAL), whether or not the other relation would have
\* found an entry; that step writes nothing to the request slot, queues and
\* cancels nothing, enters no set_cpu_freq and sends no notification; the call
\* then sits at the label done with nothing logged and its next step releases
\* the mutex and returns.
Unresolvable(c) == Fitting(FreqTable, target_freq[c], relation[c]) = {}
InvalidTargetStep ==
    \A c \in Callers :
        /\ (pc[c] = "check" /\ pc'[c] # "check" /\ device_suspended[cpu[c]] = 0
              /\ Unresolvable(c)) =>
              /\ pc'[c] = "done"
              /\ ret'[c] = -EINVAL
              /\ cpu_work' = cpu_work
              /\ <<workPending, workRunning, workOwner, complete>>' =
                     <<workPending, workRunning, workOwner, complete>>
              /\ exPc' = exPc
              /\ evlog' = evlog
              /\ policyCur' = policyCur
              /\ suspend_mutex' = suspend_mutex
        /\ (pc[c] = "done" /\ pc'[c] # "done" /\ ret[c] = -EINVAL) =>
              /\ pc'[c] = "idle"
              /\ suspend_mutex[cpu[c]] = c
              /\ suspend_mutex'[cpu[c]] = NoTask
InvalidTargetAtDone ==
    \A c \in Callers :
        (pc[c] = "done" /\ gateFlag[c] = 0 /\ Unresolvable(c)) =>
            /\ ret[c] = -EINVAL
            /\ evlog[c] = <<>>
            /\ exPc[c] = "none"
            /\ workOwner[cpu[c]] # c
            /\ ~workPending[cpu[c]] /\ ~workRunning[cpu[c]]
C17_InvalidTargetNoFallback == []InvalidTargetAtDone /\ [][InvalidTargetStep]_vars

\* C17 witness: a call fails with InvalidTarget although the other relation
\* would have found an entry for its target
C17_Witness ==
    \E c \in Callers :
        /\ pc[c] = "done" /\ ret[c] = -EINVAL /\ gateFlag[c] = 0
        /\ Unresolvable(c)
        /\ Fitting(FreqTable, target_freq[c], OtherRelation(relation[c])) # {}

\* C18: what a set_target call can wait for belongs to its own core.  A call
\* at mutex_lock proceeds as soon as the mutex of its core is free, a call at
\* cancel_work_sync as soon as the work item of its core is not running, a
\* call at wait_for_completion as soon as the completion of its core is
\* done, the kworker of a core takes that core's queued item as soon as it is
\* idle, and at every other position the call or its set_cpu_freq run can
\* step, whatever the mutexes, work items, completions and transitions of
\* the other cores are doing.
CallCanStep(c) ==
    CASE pc[c] = "lock" -> ENABLED Lock(c)
      [] pc[c] = "check" -> ENABLED Gate(c)
      [] pc[c] = "inline" ->
            \/ ENABLED ExecBegin(c)
            \/ ENABLED (\E r \in ClkResults : ExecClockSet(c, r))
            \/ ENABLED ExecEnd(c)
            \/ ENABLED InlineReturn(c)
      [] pc[c] = "cancel" -> ENABLED CancelWorkSync(c)
      [] pc[c] = "queue" -> ENABLED QueueWork(c)
      [] pc[c] = "wait" -> ENABLED WaitForCompletion(c)
      [] pc[c] = "done" -> ENABLED Unlock(c)
      [] pc[c] = "return" -> ENABLED EarlyReturn(c)
      [] OTHER -> TRUE
OwnCoreBlocks(c) ==
    LET k == cpu[c]
    IN \/ pc[c] = "lock" /\ suspend_mutex[k] # NoTask
       \/ pc[c] = "cancel" /\ workRunning[k]
       \/ pc[c] = "wait" /\ complete[k] = 0
WorkerCanStep(k) ==
    \/ wpc[k] = "idle" /\ ~workPending[k]
    \/ ENABLED WorkerPick(k)
    \/ ENABLED ExecBegin(Worker(k))
    \/ ENABLED (\E r \in ClkResults : ExecClockSet(Worker(k), r))
    \/ ENABLED ExecEnd(Worker(k))
    \/ ENABLED WorkerComplete(k)
C18_NoCrossCoreWait ==
    /\ \A c \in Callers : CallCanStep(c) \/ OwnCoreBlocks(c)
    /\ \A k \in Cores : WorkerCanStep(k)

\* C18 witness: transitions for two different cores are in flight at the
\* same time, one run inline by its caller and one by the other core's kworker
C18_Witness ==
    \E c \in Callers, k \in Cores :
        /\ c \in InFlight(cpu[c])
        /\ Worker(k) \in InFlight(k)
        /\ k # cpu[c]

\* C19: whenever a call stands at cancel_work_sync (line 150), or between it
\* and queue_work_on, the work item of its core is neither queued nor running
\* and the completion holds no unconsumed signal, so the drain cancels
\* nothing and INIT_COMPLETION discards nothing.  A queued item leaves the
\* queue only by being run; the completion goes up only from 0 to 1, fired by
\* the work item while the caller that queued it waits, and comes down only
\* from 1 to 0, consumed by the waiting caller that holds the core's mutex.
DrainFindsNothing ==
    \A c \in Callers :
        pc[c] \in {"cancel", "queue"} =>
            /\ ~workPending[cpu[c]]
            /\ ~workRunning[cpu[c]]
            /\ wpc[cpu[c]] = "idle"
            /\ complete[cpu[c]] = 0
            /\ workOwner[cpu[c]] = NoTask
SignalStep ==
    \A k \in Cores :
        /\ (workPending[k] /\ ~workPending'[k]) =>
              (wpc[k] = "idle" /\ wpc'[k] = "exec" /\ workRunning'[k])
        /\ complete'[k] > complete[k] =>
              /\ complete[k] = 0 /\ complete'[k] = 1
              /\ wpc[k] = "exec" /\ wpc'[k] = "idle"
              /\ workOwner[k] \in Callers
              /\ pc[workOwner[k]] = "wait" /\ cpu[workOwner[k]] = k
        /\ complete'[k] < complete[k] =>
              /\ complete[k] = 1 /\ complete'[k] = 0
              /\ \E c \in Callers :
                    /\ pc[c] = "wait" /\ pc'[c] = "done"
                    /\ cpu[c] = k
                    /\ suspend_mutex[k] = c
                    /\ evlog[c] # <<>>
C20_BlockedCallFails ==
    \A c \in Callers :
        (downSeen[c] /\ pc[c] \notin {"lock", "check"}) =>
            /\ pc[c] = "done"
            /\ gateFlag[c] = 1
            /\ ret[c] = -EFAULT
            /\ evlog[c] = <<>>
            /\ exPc[c] = "none"

====
